---- MODULE Spec2Model ----
(***************************************************************************)
(* A model of autodict: AutoDict.to_dict / AutoDict.from_dict and the      *)
(* helpers they call (src/src/autodict/autodict.py, types.py), run over    *)
(* the classes the test module declares (src/tests/test_autodict.py).      *)
(*                                                                         *)
(* Python values are records [k, c, a, e]:                                 *)
(*   k  the kind: "none" "int" "str" "list" "tuple" "dict" "obj" "exc"     *)
(*   c  the class name of an object / namedtuple / raised exception        *)
(*   a  the atom: a scalar's text, or the name an exception carries        *)
(*   e  the entries, a sequence of <<key, value>>: a mapping's items and   *)
(*      an object's attributes in insertion order, a sequence's elements   *)
(*      (key "").                                                          *)
(* A raised exception is the value of kind "exc" an operator returns.      *)
(* Type descriptors (classes, typing generics) are records [t, n, args].   *)
(***************************************************************************)
EXTENDS Integers, Sequences, FiniteSets, TLC

VARIABLES
  registry,  \* AutoDict's registry: class name -> Meta
  src,       \* the object last handed to to_dict (None after a load)
  opts,      \* the with_cls and strict of that to_dict call
  dic,       \* the value the caller holds and hands to from_dict
  arg,       \* the last from_dict call: the value before it, cls, strict
  out,       \* what the last call returned or raised
  raised,    \* the UnableFromDict raises of the last from_dict call
  before,    \* what the from_dict call before the last returned or raised
  calls,     \* from_dict calls made on the value held
  deco,      \* the decorators applied to the class PartialBoth so far
  pc         \* the last operation

vars == <<registry, src, opts, dic, arg, out, raised, before, calls, deco, pc>>

\* ------------------------------------------------------------------ bounds

\* nesting depth of the objects handed to to_dict
MaxDepth == 1

\* nesting depth of the raw mappings handed to from_dict
MaxRawDepth == 1

\* from_dict calls made in succession on one value
MaxCalls == 2

\* decorators applied to one class
MaxDecorators == 2

\* ------------------------------------------------------------------ values

CLS_ANNO_KEY == "@"

Atom(k, a) == [k |-> k, c |-> "", a |-> a, e |-> <<>>]

StrV(s) == Atom("str", s)

IntV(s) == Atom("int", s)

NoneVal == Atom("none", "")

List(items) == [k |-> "list", c |-> "", a |-> "",
                e |-> [i \in 1..Len(items) |-> <<"", items[i]>>]]

Tuple(items) == [k |-> "tuple", c |-> "", a |-> "",
                 e |-> [i \in 1..Len(items) |-> <<"", items[i]>>]]

Dict(entries) == [k |-> "dict", c |-> "", a |-> "", e |-> entries]

\* an instance of collections.OrderedDict, a subclass of dict
OrderedDict(entries) ==
  [k |-> "dict", c |-> "OrderedDict", a |-> "", e |-> entries]

Obj(cls, entries) == [k |-> "obj", c |-> cls, a |-> "", e |-> entries]

NamedTuple(cls, entries) == [k |-> "tuple", c |-> cls, a |-> "", e |-> entries]

Exc(cls, name) == [k |-> "exc", c |-> cls, a |-> name, e |-> <<>>]

IsExc(v) == v.k = "exc"

\* the value a one-element set holds: Only({e(x) : x \in {v}}) is e with v
\* computed once and named x
Only(S) == CHOOSE y \in S : TRUE

Keys(entries) == {entries[i][1] : i \in 1..Len(entries)}

HasKey(v, key) == key \in Keys(v.e)

Get(v, key) == v.e[CHOOSE i \in 1..Len(v.e) : v.e[i][1] = key][2]

\* del d[key]
Del(v, key) == [v EXCEPT !.e = SelectSeq(v.e, LAMBDA p : p[1] # key)]

\* d[key] = val
Put(v, key, val) ==
  IF HasKey(v, key)
  THEN [v EXCEPT !.e = [i \in 1..Len(v.e) |->
                          IF v.e[i][1] = key THEN <<key, val>> ELSE v.e[i]]]
  ELSE [v EXCEPT !.e = Append(v.e, <<key, val>>)]

\* ------------------------------------------------------------------- types

T(t, n, args) == [t |-> t, n |-> n, args |-> args]

NoneT == T("None", "", <<>>)

Builtin(n) == T("builtin", n, <<>>)

Class(n) == T("class", n, <<>>)

UnionT(args) == T("Union", "", args)

ListT(item) == T("List", "", <<item>>)

TupleT(args) == T("Tuple", "", args)

DictT(key, val) == T("Dict", "", <<key, val>>)

MappingT(key, val) == T("Mapping", "", <<key, val>>)

\* Literal[...]: one argument per allowed value, named by the value's text
LiteralT(values) ==
  T("Literal", "", [i \in 1..Len(values) |-> T("value", values[i], <<>>)])

Ellipsis == T("...", "", <<>>)

AnyT == T("Any", "", <<>>)

\* the classes of the test module
\*   builtin   the class's __module__ is builtins / collections / typing
\*   bases     __bases__
\*   dictable  derives autodict.Dictable
\*   dataclass decorated with dataclasses.dataclass
\*   ntuple    made by collections.namedtuple
\*   ann       the class's own __annotations__
\*   init      the parameters __init__ requires
ClassDef(bases, dictable, dataclass, ntuple, ann, init) ==
  [bases |-> bases, dictable |-> dictable, dataclass |-> dataclass,
   ntuple |-> ntuple, ann |-> ann, init |-> init]

Plain(ann, init) == ClassDef(<<>>, FALSE, FALSE, FALSE, ann, init)

Classes ==
  [c \in {"Normal", "CustomName", "Unregistered", "NestDictable",
          "NestUnDictable", "UnDictableNest", "AnnotatedUnion",
          "AnnotatedLiteral", "NativeDataclass", "GoodCase", "General",
          "DeriveCustomName", "PartialBoth", "Bag", "WithHiddenMember",
          "WithInheritedHiddenMember", "WithOwnHiddenMember"} |->
    CASE c = "Normal" -> Plain(<<>>, <<"str_value", "int_value">>)
      [] c = "CustomName" -> Plain(<<>>, <<"str_value", "int_value">>)
      [] c = "Unregistered" -> Plain(<<>>, <<"str_value", "int_value">>)
      [] c = "PartialBoth" -> Plain(<<>>, <<"str_value", "int_value">>)
      [] c = "NestDictable" ->
           Plain(<< <<"a", Class("Normal")>> >>, <<"a", "count">>)
      [] c = "NestUnDictable" ->
           Plain(<< <<"a", Class("Unregistered")>> >>, <<"a", "count">>)
      [] c = "UnDictableNest" ->
           Plain(<< <<"a", Class("Normal")>> >>, <<"a", "count">>)
      [] c = "AnnotatedUnion" ->
           Plain(<< <<"union_value",
                      UnionT(<<Builtin("str"), Class("Normal"),
                               ListT(Builtin("str"))>>)>> >>,
                 <<"union_value">>)
      [] c = "AnnotatedLiteral" ->
           Plain(<< <<"value", LiteralT(<<"w+", "r+">>)>> >>, <<"value">>)
      [] c = "WithHiddenMember" ->
           Plain(<<>>, <<"protected_value", "private_value">>)
      [] c = "WithInheritedHiddenMember" ->
           ClassDef(<<"WithHiddenMember">>, FALSE, FALSE, FALSE, <<>>,
                    <<"protected_value", "private_value">>)
      [] c = "WithOwnHiddenMember" ->
           ClassDef(<<"WithInheritedHiddenMember">>, FALSE, FALSE, FALSE, <<>>,
                    <<"protected_value", "private_value", "own_value">>)
      [] c = "NativeDataclass" ->
           ClassDef(<<>>, FALSE, TRUE, FALSE,
                    << <<"str_value", Builtin("str")>>,
                       <<"list_value", ListT(Builtin("int"))>> >>,
                    <<"str_value", "list_value">>)
      [] c = "GoodCase" ->
           ClassDef(<<"tuple">>, FALSE, FALSE, TRUE, <<>>, <<"ins", "name">>)
      [] c = "General" ->
           ClassDef(<<"Dictable">>, TRUE, FALSE, FALSE, <<>>,
                    <<"str_value", "int_value">>)
      [] c = "DeriveCustomName" ->
           ClassDef(<<"Dictable">>, TRUE, FALSE, FALSE, <<>>,
                    <<"str_value", "int_value">>)
      [] c = "Bag" ->
           ClassDef(<<"Dictable">>, TRUE, FALSE, FALSE, <<>>, <<"items">>)]

ClassNames == DOMAIN Classes

\* the name Python stores a private attribute __name of class cls under
Mangled(cls, name) == "_" \o cls \o "__" \o name

\* the attribute __init__ stores each of its parameters in; the classes
\* with hidden members store protected_value in _protected_value and
\* private_value in the private __private_value of WithHiddenMember, and
\* the class with a private member of its own stores own_value in its own
\* __private_value
AttrOf(c, param) ==
  IF c \in {"WithHiddenMember", "WithInheritedHiddenMember",
            "WithOwnHiddenMember"}
  THEN CASE param = "protected_value" -> "_protected_value"
         [] param = "private_value" ->
              Mangled("WithHiddenMember", "private_value")
         [] OTHER -> Mangled(c, "private_value")
  ELSE param

\* Meta, and the registry as the test module's decorators leave it
Meta(name, to_dict, from_dict) ==
  [registered |-> TRUE, name |-> name, to_dict |-> to_dict,
   from_dict |-> from_dict]

NoMeta == [registered |-> FALSE, name |-> "", to_dict |-> "", from_dict |-> ""]

dictable(reg, cls, name, to_dict, from_dict) ==
  [reg EXCEPT ![cls] =
     Meta(IF name = "" THEN cls ELSE name,
          IF to_dict = "" THEN "default_to_dict" ELSE to_dict,
          IF from_dict = "" THEN "default_from_dict" ELSE from_dict)]

\* to_dictable; direct is whether the class itself is the argument, as in
\* @to_dictable, or arrives at the function returned, as in @to_dictable():
\* then cls is None where the registry is asked, which has no entry
to_dictable(reg, cls, name, to_dict, direct) ==
  LET from_dict == IF direct /\ reg[cls].registered
                   THEN IF reg[cls].from_dict # "" THEN reg[cls].from_dict
                        ELSE "unable_from_dict"
                   ELSE "unable_from_dict"
  IN  dictable(reg, cls, name, to_dict, from_dict)

\* from_dictable, likewise
from_dictable(reg, cls, name, from_dict, direct) ==
  LET to_dict == IF direct /\ reg[cls].registered
                 THEN IF reg[cls].to_dict # "" THEN reg[cls].to_dict
                      ELSE "unable_to_dict"
                 ELSE "unable_to_dict"
  IN  dictable(reg, cls, name, to_dict, from_dict)

InitRegistry ==
  LET r0 == [c \in ClassNames |-> NoMeta]
      r1 == dictable(r0, "Normal", "", "", "")
      r2 == dictable(r1, "CustomName", "SomeA", "", "")
      r3 == dictable(r2, "NestDictable", "", "", "")
      r4 == dictable(r3, "NestUnDictable", "", "", "")
      r5 == dictable(r4, "AnnotatedUnion", "", "", "")
      r6 == dictable(r5, "General", "", "", "")
      r7 == dictable(r6, "DeriveCustomName", "SomeF", "", "")
      r8 == dictable(r7, "AnnotatedLiteral", "", "", "")
      r9 == dictable(r8, "WithHiddenMember", "", "", "")
      r10 == dictable(r9, "WithInheritedHiddenMember", "", "", "")
      r11 == dictable(r10, "WithOwnHiddenMember", "", "", "")
      r12 == dictable(r11, "Bag", "", "", "")
  IN  r12

\* ------------------------------------------------------- types.py helpers

\* type(obj)
TypeOf(v) ==
  CASE v.k = "obj" -> Class(v.c)
    [] v.k = "tuple" /\ v.c # "" -> Class(v.c)
    [] v.k = "dict" /\ v.c # "" -> Builtin(v.c)
    [] v.k = "none" -> Builtin("NoneType")
    [] OTHER -> Builtin(v.k)

\* cls.__module__ is one of builtins, collections, typing
is_builtin(cls) == cls.t \notin {"class", "None"}

is_generic(cls) ==
  cls.t \in {"Union", "List", "Tuple", "Literal", "Dict", "Mapping"}

is_generic_union(cls) == cls.t = "Union"

is_generic_literal(cls) == cls.t = "Literal"

is_generic_collection(cls) == cls.t \in {"List", "Tuple", "Dict", "Mapping"}

\* __origin__ of a generic alias
inspect_generic_origin(cls) ==
  CASE cls.t = "List" -> Builtin("list")
    [] cls.t = "Tuple" -> Builtin("tuple")
    [] cls.t = "Dict" -> Builtin("dict")
    [] cls.t = "Mapping" -> Builtin("Mapping")
    [] OTHER -> NoneT

inspect_generic_templ_args(cls, defaults) ==
  IF cls.args = <<>> THEN defaults ELSE cls.args

is_namedtuple(v) == v.k = "tuple" /\ v.c # ""

\* isinstance(v, cls) for a builtin class
IsInstanceBuiltin(v, cls) ==
  CASE cls.n = "NoneType" -> v.k = "none"
    [] cls.n = "Mapping" -> v.k = "dict"
    [] cls.n = "OrderedDict" -> v.k = "dict" /\ v.c = "OrderedDict"
    [] OTHER -> v.k = cls.n

\* issubclass(a, b) for the classes of containers: a class is a subclass of
\* itself, OrderedDict of dict, both of Mapping, a named tuple of tuple
issubclass(a, b) ==
  \/ a = b
  \/ a.t = "builtin" /\ b.t = "builtin"
       /\ <<a.n, b.n>> \in {<<"OrderedDict", "dict">>, <<"OrderedDict", "Mapping">>,
                            <<"dict", "Mapping">>}
  \/ a.t = "class" /\ a.n \in ClassNames /\ Classes[a.n].ntuple
       /\ b = Builtin("tuple")

\* the first exception among mapped entries, in iteration order
FirstExc(entries) ==
  LET bad == {i \in 1..Len(entries) : IsExc(entries[i][2])}
  IN  IF bad = {} THEN 0 ELSE CHOOSE i \in bad : \A j \in bad : i <= j

\* stable_map: the container of obj's class holding the items as the mapper
\* gave them, in obj's order; a value that is no collection is returned as it
\* is; an exception of the mapper propagates
stable_map(obj, mapped) ==
  IF obj.k \in {"dict", "list", "tuple"}
  THEN IF FirstExc(mapped) # 0 THEN mapped[FirstExc(mapped)][2]
       ELSE [obj EXCEPT !.e = mapped]
  ELSE obj

\* key.startswith(prefix)
StartsWith(key, prefix) ==
  Len(key) >= Len(prefix) /\ SubSeq(key, 1, Len(prefix)) = prefix

\* "__" in key
HasDunder(key) == \E i \in 1..(Len(key) - 1) : SubSeq(key, i, i + 1) = "__"

\* cls.__bases__, for a class name; a class the model does not declare has
\* none that matter
BasesOf(c) == IF c \in ClassNames THEN Classes[c].bases ELSE <<>>

RECURSIVE strip_hidden_member_prefix(_, _)
RECURSIVE StripInParents(_, _, _)

\* the loop over cls.__bases__ finding no parent that strips the key
StripInNoParent(bases, key, n) == SubSeq(key, 2, Len(key))

\* the loop over cls.__bases__: the first parent whose stripped key is
\* shorter than the key by more than one character decides
StripInParents(bases, key, n) ==
  IF n > Len(bases) THEN SubSeq(key, 2, Len(key))
  ELSE LET strip_key == strip_hidden_member_prefix(bases[n], key)
       IN  IF Len(strip_key) + 1 < Len(key) THEN strip_key
           ELSE StripInParents(bases, key, n + 1)

\* strip_hidden_member_prefix
strip_hidden_member_prefix(c, key) ==
  IF ~StartsWith(key, "_") THEN key
  ELSE IF HasDunder(key)
  THEN LET prefix == "_" \o c \o "__"
       IN  IF StartsWith(key, prefix)
           THEN SubSeq(key, Len(prefix) + 1, Len(key))
           ELSE StripInParents(BasesOf(c), key, 1)
  ELSE SubSeq(key, 2, Len(key))

\* ------------------------------------------------------------ the registry

\* AutoDict.registered(cls)
registered(reg, cls) == cls.t = "class" /\ reg[cls.n].registered

\* AutoDict.meta_of(cls)
meta_of(reg, cls) == reg[cls.n]

\* AutoDict.query(name=...): the class registered under the name, or None
query(reg, name) ==
  LET found == {c \in ClassNames : reg[c].registered /\ reg[c].name = name}
  IN  IF found = {} THEN NoneT ELSE Class(CHOOSE c \in found : TRUE)

\* -------------------------------------------------------------- predefined

\* default_to_dict: the instance's attributes, in the order they were set
default_to_dict(obj) == Dict(obj.e)

\* dataclass_to_dict: the dataclass's fields, in declaration order
dataclass_to_dict(obj) == Dict(obj.e)

\* unable_to_dict
unable_to_dict(obj) == Exc("UnableToDict", TypeOf(obj).n)

\* the to_dict codec a Meta names
ApplyToDict(codec, obj) ==
  IF codec = "unable_to_dict" THEN unable_to_dict(obj)
  ELSE default_to_dict(obj)

\* ----------------------------------------------------------------- to_dict

\* dataclasses.is_dataclass
is_dataclass(cls) == cls.t = "class" /\ Classes[cls.n].dataclass

\* the class derives Dictable
IsDictableClass(cls) == cls.t = "class" /\ Classes[cls.n].dictable

\* bool(obj): a Bag defines __len__ as the length of its items and is false
\* when it holds none; None and the empty builtin values are false; any
\* other object is true
Truthy(obj) ==
  CASE obj.k = "obj" /\ obj.c = "Bag" -> Len(Get(obj, "items").e) > 0
    [] obj.k = "none" -> FALSE
    [] obj.k \in {"dict", "list", "tuple"} -> Len(obj.e) > 0
    [] obj.k = "str" -> obj.a # ""
    [] OTHER -> TRUE

\* the class defines a _to_dict of its own
OverridesToDict(c) == c = "Bag"

\* obj._to_dict(): Dictable._to_dict is default_to_dict, and Bag overrides
\* it to add the number of its items
own_to_dict(obj) ==
  IF OverridesToDict(obj.c)
  THEN Dict(<< <<"items", Get(obj, "items")>>,
               <<"size", IntV(IF Truthy(obj) THEN "1" ELSE "0")>> >>)
  ELSE default_to_dict(obj)

\* _embed_class writing the class's own name, whatever it was registered as
embed_class_own_name(reg, typ, d, with_cls) ==
  IF with_cls /\ ~is_builtin(typ) /\ d.k = "dict"
  THEN IF registered(reg, typ)
       THEN Put(d, CLS_ANNO_KEY, StrV(typ.n))
       ELSE Exc("KeyError", typ.n)
  ELSE d

\* AutoDict._embed_class
embed_class(reg, typ, d, with_cls) ==
  IF with_cls /\ ~is_builtin(typ) /\ d.k = "dict"
  THEN IF registered(reg, typ)
       THEN Put(d, CLS_ANNO_KEY, StrV(meta_of(reg, typ).name))
       ELSE Exc("KeyError", typ.n)
  ELSE d

\* the head of to_dict failing on an opaque object whatever strict says
ToDictStrictIgnored(reg, obj, strict) ==
  LET cls == TypeOf(obj)
  IN  IF Truthy(obj) /\ IsDictableClass(cls)
      THEN [d |-> own_to_dict(obj), pure |-> FALSE]
      ELSE IF registered(reg, cls)
      THEN [d |-> ApplyToDict(meta_of(reg, cls).to_dict, obj), pure |-> FALSE]
      ELSE IF is_dataclass(cls)
      THEN [d |-> dataclass_to_dict(obj), pure |-> TRUE]
      ELSE IF is_builtin(cls) THEN [d |-> obj, pure |-> FALSE]
      ELSE [d |-> Exc("UnableToDict", cls.n), pure |-> FALSE]

\* the head of to_dict: the mapping of the object before its items are
\* encoded, from the first source that applies, and whether a plain
\* dataclass gave it
ToDictFirst(reg, obj, strict) ==
  LET cls == TypeOf(obj)
  IN  IF Truthy(obj) /\ IsDictableClass(cls)
      THEN [d |-> own_to_dict(obj), pure |-> FALSE]
      ELSE IF registered(reg, cls)
      THEN [d |-> ApplyToDict(meta_of(reg, cls).to_dict, obj), pure |-> FALSE]
      ELSE IF is_dataclass(cls)
      THEN [d |-> dataclass_to_dict(obj), pure |-> TRUE]
      ELSE IF is_builtin(cls) \/ ~strict THEN [d |-> obj, pure |-> FALSE]
      ELSE [d |-> Exc("UnableToDict", cls.n), pure |-> FALSE]

RECURSIVE to_dict(_, _, _, _, _)

\* fn_transform leaving with_cls at its default
fn_transform_default_cls(reg, obj_, with_cls, strict) ==
  to_dict(reg, obj_, TRUE, TRUE, strict)

\* fn_transform of to_dict: an item encoded with the caller's with_cls and
\* strict
fn_transform_to_dict(reg, obj_, with_cls, strict) ==
  to_dict(reg, obj_, with_cls, TRUE, strict)

\* _items_to_dict: stable_map with fn_transform applied to every item
items_to_dict(reg, obj, with_cls, strict) ==
  Only({
    stable_map(obj, mapped) :
    mapped \in {IF obj.k \in {"dict", "list", "tuple"}
                THEN [i \in 1..Len(obj.e) |->
                        <<obj.e[i][1],
                          fn_transform_to_dict(reg, obj.e[i][2], with_cls,
                                               strict)>>]
                ELSE <<>>}})

\* AutoDict.to_dict
to_dict(reg, obj, with_cls, recursively, strict) ==
  LET cls == TypeOf(obj)
      first == ToDictFirst(reg, obj, strict)
  IN  Only({
        IF IsExc(mapped) THEN mapped
        ELSE embed_class(reg, cls, mapped, with_cls /\ ~first.pure) :
        mapped \in {IF IsExc(first.d) \/ ~recursively THEN first.d
                    ELSE items_to_dict(reg, first.d, with_cls, strict)}})

\* --------------------------------------------------------------- from_dict

\* unable_from_dict
unable_from_dict(cls, d) == Exc("UnableFromDict", cls.n)

\* the mapping with its keys demangled, as a dict comprehension builds it: a
\* key met again keeps its place and takes the later value
RECURSIVE Demangled(_, _, _)
Demangled(c, entries, n) ==
  IF n = 0 THEN <<>>
  ELSE LET before_ == Demangled(c, entries, n - 1)
           name == strip_hidden_member_prefix(c, entries[n][1])
       IN  IF name \in Keys(before_)
           THEN [i \in 1..Len(before_) |->
                   IF before_[i][1] = name THEN <<name, entries[n][2]>>
                   ELSE before_[i]]
           ELSE Append(before_, <<name, entries[n][2]>>)

\* default_from_dict: demangles the mapping's keys, binds the entries that
\* name a parameter of the constructor, which stores them in its
\* attributes, and sets every other entry as an attribute under the key it
\* came with; fails on a value that is no mapping and on a required
\* parameter with no entry
default_from_dict(cls, d) ==
  IF d.k # "dict" THEN Exc("TypeError", cls.n)
  ELSE LET init == Classes[cls.n].init
           named == Demangled(cls.n, d.e, Len(d.e))
           missing == {i \in 1..Len(init) : init[i] \notin Keys(named)}
           rest == SelectSeq(d.e,
                     LAMBDA p : strip_hidden_member_prefix(cls.n, p[1])
                                  \notin {init[i] : i \in DOMAIN init})
       IN  IF missing # {}
           THEN Exc("TypeError", init[CHOOSE i \in missing :
                                        \A j \in missing : i <= j])
           ELSE Obj(cls.n,
                    [i \in 1..Len(init) |->
                       <<AttrOf(cls.n, init[i]),
                         named[CHOOSE j \in 1..Len(named) :
                                 named[j][1] = init[i]][2]>>] \o rest)

\* dataclass_from_dict
dataclass_from_dict(cls, d) == default_from_dict(cls, d)

\* the from_dict codec a Meta names
ApplyFromDict(codec, cls, d) ==
  IF codec = "unable_from_dict" THEN unable_from_dict(cls, d)
  ELSE default_from_dict(cls, d)

RECURSIVE get_type_hints(_)

\* typing.get_type_hints(cls): the annotations of the class and its bases
get_type_hints(c) ==
  IF c \notin ClassNames THEN <<>>
  ELSE LET bases == Classes[c].bases
           inherited == IF bases = <<>> THEN <<>> ELSE get_type_hints(bases[1])
       IN  inherited \o Classes[c].ann

\* annotations.get(field_name)
AnnotationOf(c, field) ==
  LET hints == get_type_hints(c)
      hit == {i \in 1..Len(hints) : hints[i][1] = field}
  IN  IF hit = {} \/ field = "" THEN NoneT
      ELSE hints[CHOOSE i \in hit : \A j \in hit : j <= i][2]

\* hasattr(cls, "__annotations__"); a class with no annotation of its own or
\* inherited maps its items with no expected type either way
is_annotated_class(cls) == cls.t = "class" /\ get_type_hints(cls.n) # <<>>

\* _extract_class deleting the tag whether or not it resolves
extract_class_del_always(reg, d, strict) ==
  IF d.k # "dict" \/ ~HasKey(d, CLS_ANNO_KEY)
  THEN [cls |-> NoneT, exc |-> NoneVal, dic |-> d]
  ELSE LET cls_name == Get(d, CLS_ANNO_KEY)
           cls == IF cls_name.k = "str" THEN query(reg, cls_name.a) ELSE NoneT
       IN  IF cls = NoneT /\ strict
           THEN [cls |-> NoneT, exc |-> Exc("UnableFromDict", cls_name.a),
                 dic |-> d]
           ELSE [cls |-> cls, exc |-> NoneVal, dic |-> Del(d, CLS_ANNO_KEY)]

\* AutoDict._extract_class: the class the tag names (None when there is no
\* tag or no such class), the exception raised, and the mapping afterwards:
\* the tag is deleted from the caller's mapping when it resolves
extract_class(reg, d, strict) ==
  IF d.k # "dict" \/ ~HasKey(d, CLS_ANNO_KEY)
  THEN [cls |-> NoneT, exc |-> NoneVal, dic |-> d]
  ELSE LET cls_name == Get(d, CLS_ANNO_KEY)
           cls == IF cls_name.k = "str" THEN query(reg, cls_name.a) ELSE NoneT
       IN  IF cls = NoneT
           THEN IF strict
                THEN [cls |-> NoneT, exc |-> Exc("UnableFromDict", cls_name.a),
                      dic |-> d]
                ELSE [cls |-> NoneT, exc |-> NoneVal, dic |-> d]
           ELSE [cls |-> cls, exc |-> NoneVal, dic |-> Del(d, CLS_ANNO_KEY)]

\* the resolved class taken from the tag alone
ResolveClassTagOnly(embedded_cls, cls) == embedded_cls

\* the resolved class: embedded_cls or cls if is_generic_union(cls)
\*                     else cls or embedded_cls
ResolveClass(embedded_cls, cls) ==
  IF is_generic_union(cls)
  THEN IF embedded_cls # NoneT THEN embedded_cls ELSE cls
  ELSE IF cls # NoneT THEN cls ELSE embedded_cls

\* a raise of UnableFromDict, as the call's record of the offenders it met
\* keeps it: the name raised, and whether a Union's probing of its
\* candidates caught it
Met(name) == <<[name |-> name, probed |-> FALSE]>>

Probed(log) == [i \in 1..Len(log) |-> [log[i] EXCEPT !.probed = TRUE]]

\* what a step of from_dict hands back: the value built (or the exception
\* raised), the caller's value as the step leaves it, the offenders met
Ret(res, d, log) == [res |-> res, dic |-> d, met |-> log]

\* the builtin prefilter left out: every member of the Union is attempted
SkipNoCandidate(d, cand_cls) == FALSE

\* the builtin prefilter of a Union's candidates: a member whose origin is
\* builtin is skipped when the value is no instance of it
SkipCandidate(d, cand_cls) ==
  LET origin == inspect_generic_origin(cand_cls)
      cand_orig_cls == IF origin # NoneT THEN origin ELSE cand_cls
  IN  is_builtin(cand_orig_cls) /\ ~IsInstanceBuiltin(d, cand_orig_cls)

RECURSIVE from_dict(_, _, _, _, _)
RECURSIVE map_children(_, _, _, _, _)
RECURSIVE union_candidates(_, _, _, _, _)

\* the items of a container decoded in iteration order, the first n of them.
\* Each call of from_dict works on the caller's item, so the items are
\* left as the calls leave them; an exception ends the iteration.
map_children(reg, entries, types, strict, n) ==
  IF n = 0
  THEN [items |-> <<>>, exc |-> NoneVal, e |-> entries, met |-> <<>>]
  ELSE Only({
    IF IsExc(p.exc) THEN p
    ELSE Only({
      [items |-> IF IsExc(r.res) THEN p.items
                 ELSE Append(p.items, <<entries[n][1], r.res>>),
       exc |-> IF IsExc(r.res) THEN r.res ELSE NoneVal,
       e |-> [p.e EXCEPT ![n] = <<entries[n][1], r.dic>>],
       met |-> p.met \o r.met] :
      r \in {from_dict(reg, entries[n][2], types[n], TRUE, strict)}}) :
    p \in {map_children(reg, entries, types, strict, n - 1)}})

\* MapItems reporting an item's failure under the container's class
MapItemsNamingContainer(reg, d, types, strict) ==
  Only({
    Ret(IF IsExc(m.exc) THEN Exc(m.exc.c, TypeOf(d).n)
        ELSE [d EXCEPT !.e = m.items],
        [d EXCEPT !.e = m.e], m.met) :
    m \in {map_children(reg, d.e, types, strict, Len(types))}})

\* the container of d's class rebuilt from the first Len(types) items
\* decoded against types
MapItems(reg, d, types, strict) ==
  Only({
    Ret(IF IsExc(m.exc) THEN m.exc ELSE [d EXCEPT !.e = m.items],
        [d EXCEPT !.e = m.e], m.met) :
    m \in {map_children(reg, d.e, types, strict, Len(types))}})

\* stable_map under from_dict: a collection is rebuilt from its decoded
\* items, any other value is returned as it is
stable_map_from(reg, d, types, strict) ==
  IF d.k \in {"dict", "list", "tuple"}
  THEN MapItems(reg, d, types, strict)
  ELSE Ret(d, d, <<>>)

\* _items_from_dict_dataclass, _items_from_dict_annotated_class
items_from_dict_annotated_class(reg, d, cls, strict) ==
  stable_map_from(reg, d,
    [i \in 1..Len(d.e) |-> AnnotationOf(cls.n, d.e[i][1])], strict)

\* the candidates of a Union tried in declaration order on the same value,
\* the first n of them: the successes and the value as the attempts leave it
union_candidates(reg, d, cands, strict, n) ==
  IF n = 0 THEN [objs |-> <<>>, dic |-> d, met |-> <<>>]
  ELSE LET cand_cls == cands[n]
       IN  Only({
         IF SkipCandidate(p.dic, cand_cls)
         THEN p
         ELSE Only({
           [objs |-> IF IsExc(r.res) THEN p.objs ELSE Append(p.objs, r.res),
            dic |-> r.dic,
            met |-> p.met \o Probed(r.met)] :
           r \in {from_dict(reg, p.dic, cand_cls, TRUE, strict)}}) :
         p \in {union_candidates(reg, d, cands, strict, n - 1)}})

\* the value returned whether or not the Literal allows it
literal_unchecked(d, cls) == Ret(d, d, <<>>)

\* the Literal branch: assert dic in cand_literals; return dic
literal_checked(d, cls) ==
  LET cand_literals == inspect_generic_templ_args(cls, <<>>)
  IN  IF \E i \in 1..Len(cand_literals) :
            d.k = "str" /\ cand_literals[i].n = d.a
      THEN Ret(d, d, <<>>)
      ELSE Ret(Exc("AssertionError", ""), d, <<>>)

\* _items_from_dict_generic_non_collection
items_from_dict_generic_non_collection(reg, d, cls, strict) ==
  IF is_generic_union(cls)
  THEN LET cand_classes == inspect_generic_templ_args(cls, <<AnyT>>)
       IN  Only({
         IF Len(c.objs) > 1
         THEN Ret(Exc("ValueError", "Multiple union type matched"),
                  c.dic, c.met)
         ELSE IF Len(c.objs) = 0
         THEN Ret(Exc("KeyError", "popitem(): dictionary is empty"),
                  c.dic, c.met)
         ELSE Ret(c.objs[1], c.dic, c.met) :
         c \in {union_candidates(reg, d, cand_classes, strict,
                                 Len(cand_classes))}})
  ELSE IF is_generic_literal(cls)
  THEN literal_checked(d, cls)
  ELSE Ret(d, d, <<>>)

\* the kind check of _items_from_dict_generic_collection: the declared
\* origin is a subclass of the value's class
kind_check(data_cls, d) == issubclass(data_cls, TypeOf(d))

\* mapping_builder(data_cls): the concrete mapping class built for the
\* declared origin, dict for dict and for the abstract Mapping
mapping_builder(data_cls) ==
  IF data_cls.n = "OrderedDict" THEN "OrderedDict" ELSE ""

\* the Mapping branch of _items_from_dict_generic_collection: every key is
\* decoded against the key class and every value against the value class,
\* and the pairs are handed to the mapping class in the value's order (a
\* failing key is reported before a failing value)
items_from_dict_mapping(reg, d, cls, strict) ==
  LET args == inspect_generic_templ_args(cls, <<AnyT, AnyT>>)
      keys == [i \in 1..Len(d.e) |->
                 <<d.e[i][1],
                   from_dict(reg, StrV(d.e[i][1]), args[1], TRUE, strict).res>>]
      vals == MapItems(reg, d, [i \in 1..Len(d.e) |-> args[2]], strict)
  IN  IF FirstExc(keys) # 0
      THEN Ret(keys[FirstExc(keys)][2], vals.dic, vals.met)
      ELSE IF IsExc(vals.res) THEN vals
      ELSE Ret([k |-> "dict",
                c |-> mapping_builder(inspect_generic_origin(cls)),
                a |-> "",
                e |-> [i \in 1..Len(vals.res.e) |->
                         <<keys[i][2].a, vals.res.e[i][2]>>]],
               vals.dic, vals.met)

\* _items_from_dict_generic_collection zipping the items with the template
\* arguments as they are declared
items_from_dict_generic_collection_unexpanded(reg, d, cls, strict) ==
  LET data_cls == inspect_generic_origin(cls)
  IN  IF ~kind_check(data_cls, d)
      THEN Ret(Exc("AssertionError", ""), d, <<>>)
      ELSE IF issubclass(data_cls, Builtin("Mapping"))
      THEN items_from_dict_mapping(reg, d, cls, strict)
      ELSE IF data_cls.n = "tuple"
      THEN LET item_classes ==
                 inspect_generic_templ_args(cls, <<AnyT, Ellipsis>>)
               zipped == IF Len(d.e) < Len(item_classes) THEN Len(d.e)
                         ELSE Len(item_classes)
           IN  MapItems(reg, d, SubSeq(item_classes, 1, zipped), strict)
      ELSE LET args == inspect_generic_templ_args(cls, <<AnyT>>)
           IN  MapItems(reg, d, [i \in 1..Len(d.e) |-> args[1]], strict)

\* _items_from_dict_generic_collection
items_from_dict_generic_collection(reg, d, cls, strict) ==
  LET data_cls == inspect_generic_origin(cls)
  IN  IF ~kind_check(data_cls, d)
      THEN Ret(Exc("AssertionError", ""), d, <<>>)
      ELSE IF issubclass(data_cls, Builtin("Mapping"))
      THEN items_from_dict_mapping(reg, d, cls, strict)
      ELSE IF data_cls.n = "tuple"
      THEN LET args == inspect_generic_templ_args(cls, <<AnyT, Ellipsis>>)
               item_classes ==
                 IF Len(args) = 2 /\ args[2] = Ellipsis
                 THEN [i \in 1..Len(d.e) |-> args[1]]
                 ELSE args
               zipped == IF Len(d.e) < Len(item_classes) THEN Len(d.e)
                         ELSE Len(item_classes)
           IN  MapItems(reg, d, SubSeq(item_classes, 1, zipped), strict)
      ELSE LET args == inspect_generic_templ_args(cls, <<AnyT>>)
           IN  MapItems(reg, d, [i \in 1..Len(d.e) |-> args[1]], strict)

\* _items_from_dict
items_from_dict(reg, d, cls, strict) ==
  IF is_dataclass(cls) \/ is_annotated_class(cls)
  THEN items_from_dict_annotated_class(reg, d, cls, strict)
  ELSE IF is_generic_collection(cls)
  THEN items_from_dict_generic_collection(reg, d, cls, strict)
  ELSE IF is_generic(cls)
  THEN items_from_dict_generic_non_collection(reg, d, cls, strict)
  ELSE stable_map_from(reg, d, [i \in 1..Len(d.e) |-> NoneT], strict)

\* the end of from_dict refusing, in strict mode, a mapping with no class
ConstructNoBareMapping(reg, d, cls, strict) ==
  IF IsDictableClass(cls) THEN default_from_dict(cls, d)
  ELSE IF registered(reg, cls)
  THEN ApplyFromDict(meta_of(reg, cls).from_dict, cls, d)
  ELSE IF is_dataclass(cls) THEN dataclass_from_dict(cls, d)
  ELSE IF cls = NoneT /\ strict /\ d.k = "dict"
  THEN Exc("UnableFromDict", "")
  ELSE IF cls = NoneT \/ is_builtin(cls) \/ ~strict THEN d
  ELSE Exc("UnableFromDict", cls.n)

\* the end of from_dict: the class or codec that builds the object
Construct(reg, d, cls, strict) ==
  IF IsDictableClass(cls) THEN default_from_dict(cls, d)
  ELSE IF registered(reg, cls)
  THEN ApplyFromDict(meta_of(reg, cls).from_dict, cls, d)
  ELSE IF is_dataclass(cls) THEN dataclass_from_dict(cls, d)
  ELSE IF cls = NoneT \/ is_builtin(cls) \/ ~strict THEN d
  ELSE Exc("UnableFromDict", cls.n)

\* the first half of from_dict: the tag extracted, the class resolved and
\* the items decoded; res is the value from_dict hands to the class or codec
FromDictItems(reg, d, cls0, recursively, strict) ==
  Only({
    IF IsExc(x.exc)
    THEN [cls |-> ResolveClass(x.cls, cls0), res |-> x.exc, dic |-> x.dic,
          met |-> Met(x.exc.a)]
    ELSE Only({
      [cls |-> ResolveClass(x.cls, cls0), res |-> items.res,
       dic |-> items.dic, met |-> items.met] :
      items \in {IF recursively
                 THEN items_from_dict(reg, x.dic, ResolveClass(x.cls, cls0),
                                      strict)
                 ELSE Ret(x.dic, x.dic, <<>>)}}) :
    x \in {extract_class(reg, d, strict)}})

\* AutoDict.from_dict
from_dict(reg, d, cls0, recursively, strict) ==
  Only({
    IF IsExc(h.res) THEN Ret(h.res, h.dic, h.met)
    ELSE Only({
      IF IsExc(obj) /\ obj.c = "UnableFromDict" /\ ~registered(reg, h.cls)
      THEN Ret(obj, h.dic, h.met \o Met(obj.a))
      ELSE Ret(obj, h.dic, h.met) :
      obj \in {Construct(reg, h.res, h.cls, strict)}}) :
    h \in {FromDictItems(reg, d, cls0, recursively, strict)}})

\* ------------------------------------------------------------------ inputs

StrLimo == StrV("limo")

Int10 == IntV("10")

TwoFields == << <<"str_value", StrLimo>>, <<"int_value", Int10>> >>

\* the instances handed to to_dict, nested to depth d
RECURSIVE Values(_)
Values(d) ==
  IF d = 0
  THEN {StrLimo, Int10, List(<<StrLimo, StrLimo>>),
        Obj("NativeDataclass", << <<"str_value", StrLimo>>,
                                  <<"list_value", List(<<Int10>>)>> >>)}
       \cup {Obj(c, TwoFields) :
               c \in {"Normal", "CustomName", "Unregistered", "General",
                      "DeriveCustomName"}}
  ELSE LET sub == Values(d - 1)
       IN  sub
           \cup {Obj(c, << <<"a", x>>, <<"count", Int10>> >>) :
                   c \in {"NestDictable", "NestUnDictable", "UnDictableNest"},
                   x \in sub}
           \cup {Obj("AnnotatedUnion", << <<"union_value", x>> >>) : x \in sub}
           \cup {Obj("Normal", << <<"str_value", x>>, <<"int_value", Int10>> >>) :
                   x \in sub}
           \cup {List(<<x>>) : x \in sub}
           \cup {Dict(<< <<"key", x>> >>) : x \in sub}
           \cup {NamedTuple("GoodCase", << <<"ins", x>>, <<"name", StrLimo>> >>) :
                   x \in sub}

Int20 == IntV("20")

\* instances of the classes with hidden members, as their constructors
\* leave them: the protected attribute, the private attribute of
\* WithHiddenMember and, last, the private attribute of the same short name
\* that WithOwnHiddenMember declares itself
HiddenFields ==
  << <<"_protected_value", StrLimo>>,
     <<Mangled("WithHiddenMember", "private_value"), Int10>> >>

HiddenValues ==
  {Obj("WithHiddenMember", HiddenFields),
   Obj("WithInheritedHiddenMember", HiddenFields),
   Obj("WithOwnHiddenMember",
       Append(HiddenFields,
              <<Mangled("WithOwnHiddenMember", "private_value"), Int20>>))}

\* instances of Bag, one empty and one holding an item
BagValues ==
  {Obj("Bag", << <<"items", List(<<>>)>> >>),
   Obj("Bag", << <<"items", List(<<StrLimo>>)>> >>)}

\* the field names handed to strip_hidden_member_prefix: public, protected,
\* mangled by the classes with hidden members and by a class that is in no
\* chain of theirs, and protected with a double underscore inside
FieldKeys ==
  {"str_value", "_protected_value", "_a__b", "__x"}
  \cup {Mangled(c, f) :
          c \in {"WithHiddenMember", "WithInheritedHiddenMember",
                 "WithOwnHiddenMember", "Normal"},
          f \in {"private_value", "x", ""}}

\* the tags a raw mapping carries ("" for none): registered names and names
\* of classes that are not registered
Tags == {"", "Normal", "SomeA", "NestDictable", "NestUnDictable",
         "Unregistered", "UnDictableNest"}

Tagged(entries, tag) ==
  Dict(IF tag = "" THEN entries
       ELSE Append(entries, <<CLS_ANNO_KEY, StrV(tag)>>))

\* the raw values handed to from_dict, nested to depth d: at depth 0 the
\* scalars, sequences and mappings of the test cases
RECURSIVE Raws(_)
Raws(d) ==
  IF d = 0
  THEN {StrLimo, Int10, StrV("w+"), List(<<StrLimo, StrLimo>>),
        Tuple(<<Dict(TwoFields), StrLimo>>),
        Tagged(<< <<"a", Dict(TwoFields)>>, <<"count", Int10>> >>,
               "NestDictable")}
       \cup {Tagged(TwoFields, t) : t \in Tags}
  ELSE LET sub == Raws(d - 1)
       IN  sub
           \cup {Tagged(<< <<"a", x>>, <<"count", Int10>> >>, t) :
                   x \in sub,
                   t \in {"", "NestDictable", "NestUnDictable",
                          "UnDictableNest"}}
           \cup {Dict(<< <<"str_value", x>>, <<"int_value", Int10>> >>) :
                   x \in sub}
           \cup {Dict(<< <<"union_value", x>> >>) : x \in sub}
           \cup {List(<<x>>) : x \in sub}
           \cup {Dict(<< <<"value", x>> >>) : x \in {StrLimo, StrV("w+")}}

\* sequences of n mappings, n from 0 to 3, as tuples and as lists
Repeated(n) == [i \in 1..n |-> Dict(TwoFields)]

SequenceRaws ==
  {Tuple(Repeated(n)) : n \in 0..3} \cup {List(Repeated(n)) : n \in 0..3}

\* mappings from strings to the mapping of a Normal, as a dict and as an
\* OrderedDict
TwoNormals == << <<"a", Dict(TwoFields)>>, <<"b", Dict(TwoFields)>> >>

MappingRaws == {Dict(TwoNormals), OrderedDict(TwoNormals), Dict(<<>>)}

\* the expected types handed to from_dict
ExpectedTypes ==
  {NoneT, Builtin("dict")}
  \cup {Class(c) : c \in ClassNames \ {"GoodCase", "WithInheritedHiddenMember",
                                        "WithOwnHiddenMember", "Bag"}}
  \cup {UnionT(<<Class("Normal"), Class("CustomName")>>),
        UnionT(<<Builtin("str"), Class("Normal"), ListT(Builtin("str"))>>),
        UnionT(<<Class("Unregistered"), Class("UnDictableNest")>>),
        UnionT(<<Class("Normal"), Class("Unregistered")>>),
        UnionT(<<Builtin("dict"), Class("AnnotatedUnion")>>),
        ListT(Class("NestDictable")),
        LiteralT(<<"w+", "r+">>),
        TupleT(<<Class("Normal"), Ellipsis>>),
        TupleT(<<>>),
        DictT(Builtin("str"), Class("Normal")),
        MappingT(Builtin("str"), Class("Normal")),
        TupleT(<<Class("Normal"), Builtin("str")>>)}

NoOpts == [with_cls |-> TRUE, strict |-> TRUE]

NoArg == [dic |-> NoneVal, cls |-> NoneT, strict |-> TRUE]

\* no decorator applied yet: the decorators applied, the last of them,
\* whether it was given the class directly, and the class's entry before it
NoDeco == [ops |-> {}, n |-> 0, last |-> "", direct |-> TRUE, had |-> NoMeta]

\* an instance of the class being decorated, and the mappings decoded to it
PartialValues == {Obj("PartialBoth", TwoFields)}

PartialRaws == {Tagged(TwoFields, "PartialBoth"), Dict(TwoFields)}

\* ----------------------------------------------------------- the machine

Init ==
  /\ registry = InitRegistry
  /\ src = NoneVal
  /\ opts = NoOpts
  /\ dic = NoneVal
  /\ arg = NoArg
  /\ out = NoneVal
  /\ raised = <<>>
  /\ before = NoneVal
  /\ calls = 0
  /\ deco = NoDeco
  /\ pc = "init"

\* the caller encodes an object: AutoDict.to_dict(v, with_cls, strict=strict)
ToDict(v, with_cls, strict) ==
  /\ pc \in {"init", "decorated"}
  /\ src' = v
  /\ opts' = [with_cls |-> with_cls, strict |-> strict]
  /\ out' = to_dict(registry, v, with_cls, TRUE, strict)
  /\ dic' = out'
  /\ arg' = NoArg
  /\ raised' = <<>>
  /\ before' = NoneVal
  /\ calls' = 0
  /\ pc' = "to_dict"
  /\ UNCHANGED <<registry, deco>>

\* the caller takes a raw value, as a parser would hand it over
Load(m) ==
  /\ pc \in {"init", "decorated"}
  /\ src' = NoneVal
  /\ opts' = NoOpts
  /\ out' = NoneVal
  /\ dic' = m
  /\ arg' = NoArg
  /\ raised' = <<>>
  /\ before' = NoneVal
  /\ calls' = 0
  /\ pc' = "load"
  /\ UNCHANGED <<registry, deco>>

\* the caller decodes the value it holds: AutoDict.from_dict(dic, cls,
\* strict=strict); an encoded object is decoded with no class or with its
\* own, and a repeated call repeats the arguments of the first
FromDict(cls, strict) ==
  /\ pc \in {"to_dict", "load", "from_dict"}
  /\ ~IsExc(dic)
  /\ calls < MaxCalls
  /\ LET r == from_dict(registry, dic, cls, TRUE, strict)
     IN  /\ out' = r.res
         /\ dic' = r.dic
         /\ raised' = r.met
  /\ arg' = [dic |-> dic, cls |-> cls, strict |-> strict]
  /\ before' = out
  /\ calls' = calls + 1
  /\ pc' = "from_dict"
  /\ UNCHANGED <<registry, src, opts, deco>>

\* a class definition is decorated: @to_dictable or @to_dictable() on
\* PartialBoth, before any value of the class is encoded or decoded
ToDictable(c, direct) ==
  /\ pc \in {"init", "decorated"}
  /\ deco.n < MaxDecorators
  /\ registry' = to_dictable(registry, c, "", "", direct)
  /\ deco' = [ops |-> deco.ops \cup {"to_dictable"}, n |-> deco.n + 1,
              last |-> "to_dictable", direct |-> direct, had |-> registry[c]]
  /\ pc' = "decorated"
  /\ UNCHANGED <<src, opts, dic, arg, out, raised, before, calls>>

\* @from_dictable or @from_dictable() on PartialBoth
FromDictable(c, direct) ==
  /\ pc \in {"init", "decorated"}
  /\ deco.n < MaxDecorators
  /\ registry' = from_dictable(registry, c, "", "", direct)
  /\ deco' = [ops |-> deco.ops \cup {"from_dictable"}, n |-> deco.n + 1,
              last |-> "from_dictable", direct |-> direct,
              had |-> registry[c]]
  /\ pc' = "decorated"
  /\ UNCHANGED <<src, opts, dic, arg, out, raised, before, calls>>

\* the binder demangles a field name: strip_hidden_member_prefix(cls, key);
\* the key is held as a string and the name returned is the outcome
StripHiddenMemberPrefix(c, key) ==
  /\ pc = "init"
  /\ src' = NoneVal
  /\ opts' = NoOpts
  /\ dic' = StrV(key)
  /\ arg' = [dic |-> StrV(key), cls |-> Class(c), strict |-> TRUE]
  /\ out' = StrV(strip_hidden_member_prefix(c, key))
  /\ raised' = <<>>
  /\ before' = NoneVal
  /\ calls' = 0
  /\ pc' = "strip"
  /\ UNCHANGED <<registry, deco>>

\* the caller lets go of the value it holds, and of the classes it
\* decorated: a new interpreter imports the test module
Drop ==
  /\ pc # "init"
  /\ src' = NoneVal
  /\ opts' = NoOpts
  /\ out' = NoneVal
  /\ dic' = NoneVal
  /\ arg' = NoArg
  /\ raised' = <<>>
  /\ before' = NoneVal
  /\ calls' = 0
  /\ deco' = NoDeco
  /\ registry' = InitRegistry
  /\ pc' = "init"

Next ==
  \/ /\ pc = "init"
     /\ \E v \in Values(MaxDepth) \cup HiddenValues \cup BagValues,
           with_cls \in BOOLEAN, strict \in BOOLEAN :
          ToDict(v, with_cls, strict)
  \/ /\ pc = "init"
     /\ \E m \in Raws(MaxRawDepth) \cup SequenceRaws \cup MappingRaws : Load(m)
  \/ \E direct \in BOOLEAN : ToDictable("PartialBoth", direct)
  \/ \E direct \in BOOLEAN : FromDictable("PartialBoth", direct)
  \/ /\ pc = "decorated"
     /\ \E v \in PartialValues, with_cls \in BOOLEAN, strict \in BOOLEAN :
          ToDict(v, with_cls, strict)
  \/ /\ pc = "decorated"
     /\ \E m \in PartialRaws : Load(m)
  \/ \E c \in ClassNames, key \in FieldKeys : StripHiddenMemberPrefix(c, key)
  \/ /\ pc = "to_dict"
     /\ \E cls \in {NoneT, TypeOf(src)}, strict \in BOOLEAN :
          FromDict(cls, strict)
  \/ /\ pc = "load"
     /\ \E cls \in ExpectedTypes, strict \in BOOLEAN : FromDict(cls, strict)
  \/ /\ pc = "from_dict"
     /\ FromDict(arg.cls, arg.strict)
  \/ Drop

Spec == Init /\ [][Next]_vars

\* ------------------------------------------------------------ properties

\* a from_dict call has just returned or raised
Decoded == pc = "from_dict"

\* the first from_dict call on what to_dict returned for src
RoundTrip == pc = "from_dict" /\ calls = 1 /\ src.k = "obj" /\ ~IsExc(arg.dic)

IsScalar(v) == v.k \in {"none", "int", "str"}

\* the class a mapping's tag names in the registry, None when the value is
\* no mapping, has no tag, or the registry has no class of that name
ResolvedTag(m) ==
  IF m.k = "dict" /\ HasKey(m, CLS_ANNO_KEY) /\ Get(m, CLS_ANNO_KEY).k = "str"
  THEN query(registry, Get(m, CLS_ANNO_KEY).a)
  ELSE NoneT

\* the mapping carries a tag that names no class of the registry
UnresolvedTag(m) ==
  /\ m.k = "dict"
  /\ HasKey(m, CLS_ANNO_KEY)
  /\ Get(m, CLS_ANNO_KEY).k = "str"
  /\ query(registry, Get(m, CLS_ANNO_KEY).a) = NoneT

IsMember(cls, union) == \E i \in 1..Len(union.args) : union.args[i] = cls

\* every object in the tree is an instance of a registered class
RECURSIVE AllRegistered(_)
AllRegistered(v) ==
  /\ (v.k = "obj" \/ is_namedtuple(v)) => registered(registry, TypeOf(v))
  /\ \A i \in 1..Len(v.e) : AllRegistered(v.e[i][2])

\* every field annotated with a class holds an object, and every field
\* annotated with a Union holds a string, a list or an object
RECURSIVE Conforms(_)
Conforms(v) ==
  /\ v.k = "obj" =>
       \A i \in 1..Len(v.e) :
         LET ann == AnnotationOf(v.c, v.e[i][1])
             f == v.e[i][2]
         IN  /\ ann.t = "class" => f.k = "obj"
             /\ ann.t = "Union" => f.k \in {"str", "list", "obj"}
  /\ \A i \in 1..Len(v.e) : Conforms(v.e[i][2])

\* C1: from_dict(to_dict(v, with_cls=True), None) equals v for every instance
\* v of a registered class whose fields, at every depth, are builtin values
\* or instances of registered classes (of the kind their annotation names)
C1_RoundTripTagged ==
  (RoundTrip /\ registered(registry, TypeOf(src)) /\ AllRegistered(src)
     /\ Conforms(src) /\ opts.with_cls /\ arg.cls = NoneT)
    => out = src

\* C2: a mapping whose tag resolves to class C, decoded against an expected
\* type that is not a Union, is built as C, as it is with no expected type
C2_TagOverridesHint ==
  (Decoded /\ ResolvedTag(arg.dic) # NoneT /\ arg.cls # NoneT
     /\ ~is_generic_union(arg.cls))
    => out = from_dict(registry, arg.dic, NoneT, TRUE, arg.strict).res

\* C3: a mapping whose tag resolves to class C, decoded against a Union U,
\* is built as C when C is a member of U, and otherwise is decoded as the
\* mapping without the tag is decoded against U
C3_TagOnlyIfMember ==
  (Decoded /\ ResolvedTag(arg.dic) # NoneT /\ is_generic_union(arg.cls))
    => out = IF IsMember(ResolvedTag(arg.dic), arg.cls)
             THEN from_dict(registry, arg.dic, NoneT, TRUE, arg.strict).res
             ELSE from_dict(registry, Del(arg.dic, CLS_ANNO_KEY), arg.cls,
                            TRUE, arg.strict).res

\* no mapping of the tree has the key '@'
RECURSIVE NoTagIn(_)
NoTagIn(v) ==
  /\ ~HasKey(v, CLS_ANNO_KEY)
  /\ \A i \in 1..Len(v.e) : NoTagIn(v.e[i][2])

RECURSIVE PlainBuiltin(_)
PlainBuiltin(v) ==
  /\ is_builtin(TypeOf(v))
  /\ \A i \in 1..Len(v.e) : PlainBuiltin(v.e[i][2])

\* the class is registered with the default codecs, defines no _to_dict of
\* its own, and its constructor stores every parameter in the attribute of
\* the parameter's name
DefaultCodecs(cls) ==
  /\ registered(registry, cls)
  /\ meta_of(registry, cls).to_dict = "default_to_dict"
  /\ meta_of(registry, cls).from_dict = "default_from_dict"
  /\ ~OverridesToDict(cls.n)
  /\ \A i \in 1..Len(Classes[cls.n].init) :
       AttrOf(cls.n, Classes[cls.n].init[i]) = Classes[cls.n].init[i]

\* every field of the registered object holds a builtin value with no object
\* in it and has no annotation, or holds a registered object and is
\* annotated with exactly that object's class, and so on down the tree
RECURSIVE ExactlyAnnotated(_)
ExactlyAnnotated(v) ==
  /\ v.k = "obj"
  /\ DefaultCodecs(TypeOf(v))
  /\ \A i \in 1..Len(v.e) :
       LET ann == AnnotationOf(v.c, v.e[i][1])
           f == v.e[i][2]
       IN  IF PlainBuiltin(f) THEN ann = NoneT
           ELSE ann = TypeOf(f) /\ ExactlyAnnotated(f)

NonStrictUnresolved == Decoded /\ ~arg.strict /\ UnresolvedTag(arg.dic)

\* C6 as stated: non-strict from_dict of a mapping whose tag names no class
\* gives what it gives for the mapping without the '@' entry
C6_AsIfTagAbsent ==
  NonStrictUnresolved
    => out = from_dict(registry, Del(arg.dic, CLS_ANNO_KEY), arg.cls, TRUE,
                       FALSE).res

\* the expected type has a class or codec that builds the object
HasCodec(cls) ==
  IsDictableClass(cls) \/ registered(registry, cls) \/ is_dataclass(cls)

\* C6: non-strict from_dict of a mapping whose tag names no class resolves
\* the type from the expected type alone, as with no tag, but keeps the '@'
\* entry: it stays in the caller's mapping, it is in the mapping returned
\* when the expected type is None or a plain builtin (which otherwise is
\* what the mapping without the tag gives), and it is in the mapping handed
\* to the codec of an expected class
C6_UnresolvedTagKept ==
  NonStrictUnresolved =>
    LET tag == Get(arg.dic, CLS_ANNO_KEY)
        h == FromDictItems(registry, arg.dic, arg.cls, TRUE, FALSE)
        bare == from_dict(registry, Del(arg.dic, CLS_ANNO_KEY), arg.cls,
                          TRUE, FALSE).res
    IN  /\ dic.k = "dict" /\ HasKey(dic, CLS_ANNO_KEY)
        /\ Get(dic, CLS_ANNO_KEY) = tag
        /\ h.cls = arg.cls
        /\ (arg.cls = NoneT \/ arg.cls.t = "builtin") =>
             IF IsExc(bare) THEN out = bare
             ELSE /\ out.k = "dict" /\ HasKey(out, CLS_ANNO_KEY)
                  /\ Get(out, CLS_ANNO_KEY) = tag
                  /\ Del(out, CLS_ANNO_KEY) = bare
        /\ (HasCodec(arg.cls) /\ ~IsExc(h.res)) =>
             /\ h.res.k = "dict" /\ HasKey(h.res, CLS_ANNO_KEY)
             /\ Get(h.res, CLS_ANNO_KEY) = tag

\* C6 happens: a mapping tagged with an unknown name is decoded non-strictly
\* with no expected type and comes back with its tag
C6_Witness ==
  /\ NonStrictUnresolved
  /\ arg.cls = NoneT
  /\ out.k = "dict"
  /\ HasKey(out, CLS_ANNO_KEY)
  /\ HasKey(out, "str_value")

\* a Union none of whose members decoded the value ended the call
NoMemberMatched == out = Exc("KeyError", "popitem(): dictionary is empty")

\* C7 as stated: a strict from_dict call that meets an unknown tag or an
\* expected class nothing can build fails with UnableFromDict naming the
\* first offender it met (the calls a Union with no matching member ends
\* are left aside)
C7_EveryOffenderRaised ==
  (Decoded /\ arg.strict /\ raised # <<>> /\ ~NoMemberMatched)
    => out = Exc("UnableFromDict", raised[1].name)

\* the class from_dict resolves for the value at the top of the call
ResolvedTop == FromDictItems(registry, arg.dic, arg.cls, TRUE, arg.strict)

\* C7: a strict from_dict call that meets an unknown tag or an expected
\* class nothing can build, anywhere but in the attempt of a Union's
\* candidate, fails with UnableFromDict naming that offender, however deep
\* it lies; an unknown tag on the value itself is named whatever the
\* expected type, and an expected class nothing can build is named when
\* the items decoded without failure
C7_OffenderOutsideUnionRaised ==
  (Decoded /\ arg.strict) =>
    /\ \A i \in 1..Len(raised) :
         ~raised[i].probed => out = Exc("UnableFromDict", raised[i].name)
    /\ UnresolvedTag(arg.dic)
         => out = Exc("UnableFromDict", Get(arg.dic, CLS_ANNO_KEY).a)
    /\ (ResolvedTop.cls.t = "class" /\ ~HasCodec(ResolvedTop.cls)
          /\ ~IsExc(ResolvedTop.res))
         => out = Exc("UnableFromDict", ResolvedTop.cls.n)
    /\ (out.k = "exc" /\ out.c = "UnableFromDict")
         => \/ raised # <<>> /\ raised[Len(raised)].name = out.a
            \/ /\ out.a \in ClassNames
               /\ registry[out.a].from_dict = "unable_from_dict"

\* C7 happens: a strict call on an untagged mapping fails on the unknown tag
\* of the mapping in its field
C7_Witness ==
  /\ Decoded
  /\ arg.strict
  /\ arg.dic.k = "dict"
  /\ ~HasKey(arg.dic, CLS_ANNO_KEY)
  /\ \E i \in 1..Len(arg.dic.e) : UnresolvedTag(arg.dic.e[i][2])
  /\ Len(raised) = 1
  /\ ~raised[1].probed
  /\ out = Exc("UnableFromDict", "Unregistered")

\* the value's class is neither Dictable, registered, a dataclass nor builtin
OpaqueType(v) ==
  /\ ~is_builtin(TypeOf(v))
  /\ ~HasCodec(TypeOf(v))

\* an opaque value that is no collection: no namedtuple
Opaque(v) == OpaqueType(v) /\ ~is_namedtuple(v)

AgainstUnion ==
  /\ Decoded
  /\ is_generic_union(arg.cls)
  /\ ResolvedTag(arg.dic) = NoneT
  /\ ~(arg.strict /\ UnresolvedTag(arg.dic))

\* the Union's i-th member is attempted: it is no builtin, or the value is
\* an instance of the builtin
Tried(i) == ~SkipCandidate(arg.dic, arg.cls.args[i])

\* the value decoded against the Union's i-th member alone
Alone(i) == from_dict(registry, arg.dic, arg.cls.args[i], TRUE, arg.strict).res

TriedMembers == {i \in 1..Len(arg.cls.args) : Tried(i)}

\* C9: when every member of the Union that is tried fails, from_dict fails
\* with the failure of the first one tried
C9_FirstFailureReraised ==
  (AgainstUnion /\ TriedMembers # {} /\ \A i \in TriedMembers : IsExc(Alone(i)))
    => out = Alone(CHOOSE i \in TriedMembers : \A j \in TriedMembers : i <= j)

\* C10: when more than one member of the Union decodes the value, from_dict
\* fails with ValueError 'Multiple union type matched'
C10_AmbiguityRaises ==
  (AgainstUnion /\ Cardinality({i \in TriedMembers : ~IsExc(Alone(i))}) > 1)
    => out = Exc("ValueError", "Multiple union type matched")

\* the Union of the annotated test class: Union[str, Normal, List[str]]
StrNormalListUnion ==
  UnionT(<<Builtin("str"), Class("Normal"), ListT(Builtin("str"))>>)

\* the members of the Union that decode the value when tried alone
AloneMatches == {i \in TriedMembers : ~IsExc(Alone(i))}

\* C11: against a Union, a member whose origin is builtin is attempted only
\* when the value is an instance of it: a value with no tag in it that
\* exactly one attempted member decodes comes back as that member decodes
\* it, whatever the members not attempted would make of it; against
\* Union[str, Normal, List[str]] a string and a list of strings come back
\* unchanged and an untagged mapping of Normal's fields as a Normal
C11_BuiltinPrefilter ==
  AgainstUnion =>
    /\ (NoTagIn(arg.dic) /\ Cardinality(AloneMatches) = 1)
         => out = Alone(CHOOSE i \in AloneMatches : TRUE)
    /\ arg.cls = StrNormalListUnion =>
         /\ arg.dic = StrLimo => out = StrLimo
         /\ arg.dic = List(<<StrLimo, StrLimo>>) => out = arg.dic
         /\ arg.dic = Dict(TwoFields) => out = Obj("Normal", TwoFields)

\* C11 happens: a list of strings, which the member str would also return
\* were it attempted, is decoded by the member List[str] alone
C11_Witness ==
  /\ AgainstUnion
  /\ arg.cls = StrNormalListUnion
  /\ arg.dic = List(<<StrLimo, StrLimo>>)
  /\ AloneMatches = {3}
  /\ ~IsExc(from_dict(registry, arg.dic, Builtin("str"), TRUE, arg.strict).res)
  /\ out = arg.dic

\* the value is one of the Literal's allowed values
Allowed(v, literal) ==
  \E i \in 1..Len(literal.args) : v.k = "str" /\ v.a = literal.args[i].n

\* C12: a value decoded against a Literal comes back unchanged when it is
\* one of the allowed values, and otherwise the call fails (by the
\* assertion, or in strict mode on a tag no class is registered under) and
\* returns nothing; the same holds of the field of a registered class that
\* is annotated with the Literal
C12_LiteralEnforced ==
  Decoded =>
    /\ is_generic_literal(arg.cls) =>
         IF Allowed(arg.dic, arg.cls) THEN out = arg.dic
         ELSE /\ IsExc(out)
              /\ out.c = "AssertionError"
                   \/ (arg.strict /\ UnresolvedTag(arg.dic))
    /\ (arg.cls = Class("AnnotatedLiteral") /\ arg.dic.k = "dict"
          /\ Keys(arg.dic.e) = {"value"}) =>
         IF Allowed(Get(arg.dic, "value"), LiteralT(<<"w+", "r+">>))
         THEN out = Obj("AnnotatedLiteral", arg.dic.e)
         ELSE out = Exc("AssertionError", "")

\* C12 happens: a string the Literal does not allow is refused
C12_Witness ==
  /\ Decoded
  /\ arg.cls = LiteralT(<<"w+", "r+">>)
  /\ arg.dic = StrLimo
  /\ out = Exc("AssertionError", "")

\* C13: an instance of a class that inherits a private field and declares a
\* private field of its own with the same short name encodes to a mapping
\* with one key per field, each under its class's mangled name, and decoding
\* that mapping gives an instance whose two fields hold what they held
OwnKey == Mangled("WithOwnHiddenMember", "private_value")

BaseKey == Mangled("WithHiddenMember", "private_value")

\* the decoder is told the class, by the tag or by the caller
ClassKnown == opts.with_cls \/ arg.cls = TypeOf(src)

C13_HiddenFieldsKept ==
  /\ (pc = "to_dict" /\ src.k = "obj" /\ src.c = "WithOwnHiddenMember") =>
       /\ OwnKey # BaseKey
       /\ out.k = "dict"
       /\ {OwnKey, BaseKey} \subseteq Keys(out.e)
       /\ Get(out, OwnKey) = Get(src, OwnKey)
       /\ Get(out, BaseKey) = Get(src, BaseKey)
  /\ (RoundTrip /\ ClassKnown /\ src.c = "WithOwnHiddenMember") =>
       /\ out.k = "obj"
       /\ out.c = "WithOwnHiddenMember"
       /\ {OwnKey, BaseKey} \subseteq Keys(out.e)
       /\ Get(out, OwnKey) = Get(src, OwnKey)
       /\ Get(out, BaseKey) = Get(src, BaseKey)

\* the classes of the tests, which hold one private field, do come back
SingleHiddenFieldKept ==
  (RoundTrip /\ ClassKnown
     /\ src.c \in {"WithHiddenMember", "WithInheritedHiddenMember"}) =>
    out = src

\* the name each registered class of the tests was registered under
RegisteredName(c) ==
  CASE c = "CustomName" -> "SomeA"
    [] c = "DeriveCustomName" -> "SomeF"
    [] OTHER -> c

\* o, the encoding of v, follows the tagging rule at v's level and below:
\* a mapping made for an instance of a registered class holds the class's
\* registered name under '@', and what is made for an instance of an
\* unregistered dataclass or for a builtin value has no '@' of its own
RECURSIVE TaggedByRule(_, _)
TaggedByRule(v, o) ==
  /\ IF v.k = "obj" /\ registered(registry, TypeOf(v))
     THEN o.k = "dict" =>
            /\ HasKey(o, CLS_ANNO_KEY)
            /\ Get(o, CLS_ANNO_KEY) = StrV(RegisteredName(v.c))
            /\ Get(o, CLS_ANNO_KEY) = StrV(meta_of(registry, TypeOf(v)).name)
     ELSE (is_builtin(TypeOf(v)) \/ is_dataclass(TypeOf(v)))
            => ~HasKey(o, CLS_ANNO_KEY)
  /\ (o.k \in {"dict", "list", "tuple"} /\ Len(o.e) >= Len(v.e)) =>
       \A i \in 1..Len(v.e) : TaggedByRule(v.e[i][2], o.e[i][2])

\* C14: with with_cls=True the mapping to_dict makes for an instance of a
\* registered class carries '@' with the name the class was registered
\* under, at every level of nesting, the mapping made for an unregistered
\* dataclass carries no '@' of its own, and builtin values get no '@'
C14_TaggingRule ==
  (pc = "to_dict" /\ opts.with_cls /\ ~IsExc(out)) => TaggedByRule(src, out)

\* C14 happens: a registered record holding a record registered under a
\* custom name is encoded with tags, and so is a registered record holding
\* an unregistered dataclass
C14_Witness ==
  /\ pc = "to_dict"
  /\ opts.with_cls
  /\ src.k = "obj"
  /\ src.c = "NestDictable"
  /\ Get(src, "a").k = "obj"
  /\ Get(src, "a").c = "CustomName"
  /\ out.k = "dict"
  /\ Get(out, CLS_ANNO_KEY) = StrV("NestDictable")
  /\ Get(Get(out, "a"), CLS_ANNO_KEY) = StrV("SomeA")

\* the entry of the decorated class in the registry
PartialMeta == registry["PartialBoth"]

\* a first decode of the decorated class's mapping, with its class known
DecodedPartial ==
  /\ pc = "from_dict"
  /\ calls = 1
  /\ \/ arg.dic = Tagged(TwoFields, "PartialBoth")
        /\ arg.cls \in {NoneT, Class("PartialBoth")}
     \/ arg.dic = Dict(TwoFields) /\ arg.cls = Class("PartialBoth")

EncodedPartial == pc = "to_dict" /\ src \in PartialValues

\* C15: to_dictable leaves the from_dict codec the class had, or sets
\* unable_from_dict when it had none, and from_dictable does the same for
\* the to_dict codec, whether the decorator is given the class or called
\* first; so a class given only to_dictable encodes and fails to decode
\* with UnableFromDict, a class given only from_dictable decodes and fails
\* to encode with UnableToDict, and a class given both round-trips
C15_PartialRegistration ==
  /\ deco.last = "to_dictable" =>
       PartialMeta.from_dict = IF deco.had.registered THEN deco.had.from_dict
                               ELSE "unable_from_dict"
  /\ deco.last = "from_dictable" =>
       PartialMeta.to_dict = IF deco.had.registered THEN deco.had.to_dict
                             ELSE "unable_to_dict"
  /\ deco.ops = {"to_dictable"} =>
       /\ EncodedPartial =>
            out = Dict(IF opts.with_cls
                       THEN Append(TwoFields,
                                   <<CLS_ANNO_KEY, StrV("PartialBoth")>>)
                       ELSE TwoFields)
       /\ DecodedPartial => out = Exc("UnableFromDict", "PartialBoth")
  /\ deco.ops = {"from_dictable"} =>
       /\ EncodedPartial => out = Exc("UnableToDict", "PartialBoth")
       /\ DecodedPartial => out = Obj("PartialBoth", TwoFields)
  /\ (deco.ops = {"to_dictable", "from_dictable"}
        /\ RoundTrip /\ ClassKnown /\ src \in PartialValues) => out = src

\* the call decodes against Tuple[T, ...], or against Tuple, where T is Any
AgainstRepeatedTuple ==
  /\ pc = "from_dict"
  /\ calls = 1
  /\ arg.cls.t = "Tuple"
  /\ arg.cls.args = <<>> \/ (Len(arg.cls.args) = 2 /\ arg.cls.args[2] = Ellipsis)

RepeatedT == IF arg.cls.args = <<>> THEN AnyT ELSE arg.cls.args[1]

\* what decoding each item of the input against T gives, in order
ItemsAgainstT ==
  [i \in 1..Len(arg.dic.e) |->
     from_dict(registry, arg.dic.e[i][2], RepeatedT, TRUE, arg.strict).res]

\* the tuple of all the input's items decoded against T, or the failure of
\* the first item that fails
ExpandedTuple ==
  IF \E i \in 1..Len(ItemsAgainstT) : IsExc(ItemsAgainstT[i])
  THEN ItemsAgainstT[CHOOSE i \in 1..Len(ItemsAgainstT) :
                       /\ IsExc(ItemsAgainstT[i])
                       /\ \A j \in 1..(i - 1) : ~IsExc(ItemsAgainstT[j])]
  ELSE Tuple(ItemsAgainstT)

\* C16 as stated: every sequence of n items, a list as well as a tuple,
\* decoded against Tuple[T, ...] or Tuple gives the tuple of its n items
\* decoded against T
C16_SequenceExpanded ==
  (AgainstRepeatedTuple /\ arg.dic.k \in {"tuple", "list"} /\ arg.dic.c = "")
    => out = ExpandedTuple

\* C16: a tuple of n items, n >= 0, decoded against Tuple[T, ...] or Tuple
\* gives the tuple of its n items decoded against T, and a list is refused
\* by the assertion on the input's type
C16_TupleExpanded ==
  AgainstRepeatedTuple =>
    /\ (arg.dic.k = "tuple" /\ arg.dic.c = "") =>
         /\ out = ExpandedTuple
         /\ ~IsExc(out) => (out.k = "tuple" /\ Len(out.e) = Len(arg.dic.e))
    /\ arg.dic.k = "list" => out = Exc("AssertionError", "")

\* C16 happens: a tuple of three mappings becomes a tuple of three records,
\* and the empty tuple stays empty
C16_Witness ==
  /\ AgainstRepeatedTuple
  /\ arg.cls = TupleT(<<Class("Normal"), Ellipsis>>)
  /\ arg.dic = Tuple(Repeated(3))
  /\ out = Tuple([i \in 1..3 |-> Obj("Normal", TwoFields)])

\* the un-recursed result of to_dict by the order of the claim: the value's
\* own _to_dict for an instance of a Dictable subclass, else the registry's
\* codec, else the dataclass extractor, else the builtin value itself, else
\* failure in strict mode and the value itself otherwise
Dispatched(v, strict) ==
  LET cls == TypeOf(v)
  IN  IF IsDictableClass(cls) THEN own_to_dict(v)
      ELSE IF registered(registry, cls)
      THEN ApplyToDict(meta_of(registry, cls).to_dict, v)
      ELSE IF is_dataclass(cls) THEN dataclass_to_dict(v)
      ELSE IF is_builtin(cls) THEN v
      ELSE IF strict THEN Exc("UnableToDict", cls.n)
      ELSE v

\* C17: to_dict takes the un-recursed result from the first source that
\* applies, in the order own _to_dict, registry codec, dataclass extractor,
\* builtin value, strict failure or the value; every instance of a Dictable
\* subclass is encoded by its own _to_dict, here Bag's, which adds the size
C17_DispatchPriority ==
  pc = "to_dict" =>
    /\ ToDictFirst(registry, src, opts.strict).d = Dispatched(src, opts.strict)
    /\ (src.k = "obj" /\ src.c = "Bag") =>
         /\ out.k = "dict"
         /\ HasKey(out, "size")

\* the same of the values that are true
DispatchPriorityOfTrue ==
  (pc = "to_dict" /\ Truthy(src)) =>
    /\ ToDictFirst(registry, src, opts.strict).d = Dispatched(src, opts.strict)
    /\ (src.k = "obj" /\ src.c = "Bag") =>
         /\ out.k = "dict"
         /\ HasKey(out, "size")

\* a first decode with no expected type of a value whose tag, if it has
\* one, names no class
NoType ==
  /\ pc = "from_dict"
  /\ calls = 1
  /\ arg.cls = NoneT
  /\ ResolvedTag(arg.dic) = NoneT

\* the children of the value, each decoded with no expected type
ChildrenNoType ==
  [i \in 1..Len(arg.dic.e) |->
     <<arg.dic.e[i][1],
       from_dict(registry, arg.dic.e[i][2], NoneT, TRUE, arg.strict).res>>]

\* the value with its children decoded, or the first child's failure
ChildrenDecoded ==
  IF FirstExc(ChildrenNoType) # 0
  THEN ChildrenNoType[FirstExc(ChildrenNoType)][2]
  ELSE [arg.dic EXCEPT !.e = ChildrenNoType]

\* C18 as stated: with no resolved tag and no expected type a scalar or a
\* sequence comes back with its children decoded, and so does a mapping
\* when not strict, but in strict mode a mapping fails with UnableFromDict
C18_StrictMappingFails ==
  NoType =>
    IF arg.dic.k = "dict" /\ arg.strict
    THEN IsExc(out) /\ out.c = "UnableFromDict"
    ELSE out = ChildrenDecoded

\* C18: with no resolved tag and no expected type a scalar comes back as it
\* is and a sequence or a mapping with its children decoded, in strict mode
\* too; only a mapping whose tag names no class fails in strict mode, with
\* UnableFromDict of the tag
C18_NoTypeDecode ==
  NoType =>
    /\ IsScalar(arg.dic) => out = arg.dic
    /\ IF arg.strict /\ UnresolvedTag(arg.dic)
       THEN out = Exc("UnableFromDict", Get(arg.dic, CLS_ANNO_KEY).a)
       ELSE out = ChildrenDecoded

\* C18 happens: a strict decode of a mapping with no tag and no expected
\* type returns the mapping, and one of a list of such a mapping the list
C18_Witness ==
  /\ NoType
  /\ arg.strict
  /\ arg.dic = Dict(TwoFields)
  /\ out = Dict(TwoFields)

\* the Union with its members in the opposite order
Reversed(union) ==
  [union EXCEPT !.args = [i \in 1..Len(union.args) |->
                            union.args[Len(union.args) + 1 - i]]]

\* C19: against a Union each member is attempted on the value as the caller
\* gave it, so the call gives what the one member gives that decodes the
\* value alone, fails with 'Multiple union type matched' when more than one
\* does, and gives the same with the members in the opposite order
C19_CandidatesIndependent ==
  AgainstUnion =>
    /\ Cardinality(AloneMatches) = 1
         => out = Alone(CHOOSE i \in AloneMatches : TRUE)
    /\ Cardinality(AloneMatches) > 1 => IsExc(out) /\ out.c = "ValueError"
    /\ (calls = 1 /\ AloneMatches # {})
         => out = from_dict(registry, arg.dic, Reversed(arg.cls), TRUE,
                            arg.strict).res

\* the second from_dict call in a row, with the arguments of the first, on
\* the value object the first was given
SecondCall == pc = "from_dict" /\ calls = 2

\* C20: a second from_dict call with the same value object, expected type
\* and strict flag returns what the first returned, or fails as it failed
C20_SameOutcomeTwice ==
  SecondCall => out = before

\* the class and its direct and transitive base classes
RECURSIVE Chain(_)
Chain(c) ==
  {c} \cup UNION {Chain(BasesOf(c)[i]) : i \in 1..Len(BasesOf(c))}

\* the key is a private name mangled by class A: _A__f, whatever f is
MangledBy(A, key) == StartsWith(key, "_" \o A \o "__")

\* C21: strip_hidden_member_prefix(cls, key) returns a key that does not
\* start with '_' unchanged, returns f for the key _A__f when A is cls or a
\* direct or transitive base class of cls, and returns any other key, a
\* protected one or one mangled by no class of the chain, without its first
\* underscore
C21_Demangled ==
  pc = "strip" =>
    LET c == arg.cls.n
        key == arg.dic.a
    IN  /\ ~StartsWith(key, "_") => out.a = key
        /\ \A A \in Chain(c) :
             MangledBy(A, key) => out.a = SubSeq(key, Len(A) + 4, Len(key))
        /\ (StartsWith(key, "_") /\ \A A \in Chain(c) : ~MangledBy(A, key))
             => out.a = SubSeq(key, 2, Len(key))

\* C21 happens: the key of the private field of WithHiddenMember is
\* demangled for the class two levels below it
C21_Witness ==
  /\ pc = "strip"
  /\ arg.cls = Class("WithOwnHiddenMember")
  /\ "WithHiddenMember" \notin {BasesOf("WithOwnHiddenMember")[i] :
                                  i \in 1..Len(BasesOf("WithOwnHiddenMember"))}
  /\ arg.dic.a = "_WithHiddenMember__private_value"
  /\ out.a = "private_value"

\* a first decode against List[T], Dict[K, V] or Mapping[K, V] of a
\* container whose class is the declared origin or a subclass of it
KindMatches ==
  /\ pc = "from_dict"
  /\ calls = 1
  /\ arg.cls.t \in {"List", "Dict", "Mapping"}
  /\ arg.dic.k \in {"list", "dict"}
  /\ ResolvedTag(arg.dic) = NoneT
  /\ ~(arg.strict /\ UnresolvedTag(arg.dic))
  /\ issubclass(TypeOf(arg.dic), inspect_generic_origin(arg.cls))

\* the items of the value decoded against the declared element class, the
\* values of a mapping against the declared value class
ItemsDeclared ==
  [i \in 1..Len(arg.dic.e) |->
     <<arg.dic.e[i][1],
       from_dict(registry, arg.dic.e[i][2], arg.cls.args[Len(arg.cls.args)],
                 TRUE, arg.strict).res>>]

\* C22: a container whose class is the declared origin or a subclass of it
\* passes the kind check, and unless an item fails to decode the result is
\* a container of the declared category, a mapping of the concrete kind of
\* the input, holding the decoded items in input order
C22_KindAndFidelity ==
  KindMatches =>
    /\ out # Exc("AssertionError", "")
    /\ FirstExc(ItemsDeclared) = 0 =>
         /\ out.k = arg.dic.k
         /\ out.c = arg.dic.c
         /\ out.e = ItemsDeclared

\* the same of a container whose class is the declared origin itself
KindAndFidelityOfOrigin ==
  (KindMatches /\ TypeOf(arg.dic) = inspect_generic_origin(arg.cls)) =>
    /\ out # Exc("AssertionError", "")
    /\ FirstExc(ItemsDeclared) = 0 =>
         /\ out.k = arg.dic.k
         /\ out.c = arg.dic.c
         /\ out.e = ItemsDeclared

\* a first decode of a sequence against Tuple[T1, ..., Tk] without ellipsis
AgainstFixedTuple ==
  /\ pc = "from_dict"
  /\ calls = 1
  /\ arg.cls.t = "Tuple"
  /\ Len(arg.cls.args) > 0
  /\ \A i \in 1..Len(arg.cls.args) : arg.cls.args[i] # Ellipsis
  /\ arg.dic.k \in {"tuple", "list"}
  /\ arg.dic.c = ""

\* element i of the sequence decoded against Ti
ItemAgainst(i) ==
  from_dict(registry, arg.dic.e[i][2], arg.cls.args[i], TRUE, arg.strict).res

\* C23: decoding a sequence of n elements against Tuple[T1, ..., Tk] either
\* fails or yields a tuple of n elements, element i decoded against Ti
C23_NoElementDropped ==
  AgainstFixedTuple =>
    \/ IsExc(out)
    \/ /\ out.k = "tuple"
       /\ Len(out.e) = Len(arg.dic.e)
       /\ Len(arg.dic.e) <= Len(arg.cls.args)
       /\ \A i \in 1..Len(out.e) : out.e[i][2] = ItemAgainst(i)

\* as many elements as the declaration has classes are decoded, each
\* against its own class, and the elements beyond them are left out
FixedTupleZipped ==
  (AgainstFixedTuple /\ ~IsExc(out)) =>
    /\ out.k = "tuple"
    /\ Len(out.e) <= Len(arg.dic.e)
    /\ Len(out.e) <= Len(arg.cls.args)
    /\ Len(out.e) \in {Len(arg.dic.e), Len(arg.cls.args)}
    /\ \A i \in 1..Len(out.e) : out.e[i][2] = ItemAgainst(i)

====
